---- MODULE Spec2Model ----
(***************************************************************************)
(* Model of the rust-scheme tokenizer (src/src/lexer/).                    *)
(*                                                                         *)
(* Two character sources, StringLexer (string_lexer.rs) and IOLexer        *)
(* (io_lexer.rs), are constructed over the same bytes and driven by the    *)
(* same calls: peek, get and next.  The scanners of the Lexer trait        *)
(* (lexer.rs) are default methods written against peek/get/line/chr, so    *)
(* they are modelled once, parameterised by the kind of source.            *)
(*                                                                         *)
(* Characters are the byte values the sources produce with `u8 as char`.   *)
(* Option<char> is a sequence of length 0 (None) or 1 (Some(c)).           *)
(***************************************************************************)
EXTENDS Integers, Sequences, FiniteSets, TLC

\* ------------------------------------------------------------------ bounds

\* Longest input of the character-source specification.
MaxSrcLen == 5
\* Longest input of the general tokenizer specification.
MaxLen == 3
\* Longest input of the string-literal specification.
MaxStrLen == 4
\* Longest input of the number specification.
MaxNumLen == 4
\* Longest identifier prefix and longest suffix of the identifier specification.
MaxPreLen == 2
MaxSufLen == 1

\* -------------------------------------------------------------- characters

NL        == 10
SPACE     == 32
QUOTE     == 34
LPAREN    == 40
RPAREN    == 41
MINUS     == 45
DOT       == 46
DIGIT0    == 48
DIGIT9    == 57
SEMICOLON == 59
UPPER_A   == 65
BACKSLASH == 92
LOWER_Z   == 122

\* char::is_whitespace on the chars a byte can become (White_Space below U+0100).
WHITESPACE == {9, 10, 11, 12, 13, 32, 133, 160}

\* `invalid` of Lexer::ident:  [ ] { } ( ) | \ / ' " # ,
invalid == {91, 93, 123, 125, 40, 41, 124, 92, 47, 39, 34, 35, 44}

is_whitespace(c) == c \in WHITESPACE

\* ------------------------------------------------------------------- state

VARIABLES
    input,   \* the bytes both sources are constructed over
    errAt,   \* the read (1-based byte position) at which the supply fails; 0: never
    sl,      \* the StringLexer: [index, line, chr]
    io,      \* the IOLexer: [pos, buf, eof, line, chr, reads]
    op,      \* the last call made on both lexers: "new", "peek", "get", "next"
    slOpt,   \* the Option<char> the StringLexer returned last (peek/get)
    ioOpt,   \* the Option<char> the IOLexer returned last (peek/get)
    slRes,   \* the Result<Token, LexError> the StringLexer returned last (next)
    ioRes    \* the Result<Token, LexError> the IOLexer returned last (next)

vars == <<input, errAt, sl, io, op, slOpt, ioOpt, slRes, ioRes>>

\* ----------------------------------------------------- tokens and errors

\* Token::X(text, line, chr) / LexError::X(text, line, chr).  LPAR, RPAR and END
\* carry no text; INVALID carries its one character as a text of length 1.
Tok(tag, text, line, chr) ==
    [ok |-> TRUE, tag |-> tag, text |-> text, line |-> line, chr |-> chr]

Err(tag, text, line, chr) ==
    [ok |-> FALSE, tag |-> tag, text |-> text, line |-> line, chr |-> chr]

\* Mutant of Token::number: the '.' is ignored.
Token_number_always_integer(str, is_float, line, chr) ==
    Tok("INTEGER", str, line, chr)

\* Token::number
Token_number(str, is_float, line, chr) ==
    IF is_float THEN Tok("FLOAT", str, line, chr) ELSE Tok("INTEGER", str, line, chr)

\* Mutant of LexError::number: the '.' is ignored.
LexError_number_always_integer(str, is_float, line, chr) ==
    Err("INTEGER", str, line, chr)

\* LexError::number
LexError_number(str, is_float, line, chr) ==
    IF is_float THEN Err("FLOAT", str, line, chr) ELSE Err("INTEGER", str, line, chr)

\* No next() has returned yet.
NoResult == [ok |-> FALSE, tag |-> "NONE", text |-> <<>>, line |-> 0, chr |-> 0]

\* ------------------------------------------------------------ Lexer::count

\* Mutant of count: a newline advances the line but does not reset the column.
count_no_reset(s, c) ==
    IF c = NL
    THEN [s EXCEPT !.line = s.line + 1, !.chr = s.chr + 1]
    ELSE [s EXCEPT !.chr = s.chr + 1]

\* Mutant of count: a newline resets the column but does not advance the line.
count_line_not_advanced(s, c) ==
    IF c = NL
    THEN [s EXCEPT !.chr = 1]
    ELSE [s EXCEPT !.chr = s.chr + 1]

count(s, c) ==
    IF c = NL
    THEN [s EXCEPT !.line = s.line + 1, !.chr = 1]
    ELSE [s EXCEPT !.chr = s.chr + 1]

\* ------------------------------------------------------------- StringLexer

StringLexer_new == [index |-> 0, line |-> 1, chr |-> 1]

StringLexer_peek(s) ==
    IF s.index < Len(input) THEN <<input[s.index + 1]>> ELSE <<>>

\* Mutant of StringLexer::get: the character is read after the index moved.
StringLexer_get_after_increment(s) ==
    LET p == StringLexer_peek(s)
        n == StringLexer_peek([s EXCEPT !.index = s.index + 1])
    IN
    IF p # <<>>
    THEN [st |-> count([s EXCEPT !.index = s.index + 1], p[1]), ret |-> n]
    ELSE [st |-> s, ret |-> <<>>]

\* Mutant of StringLexer::get: the column is counted also at the end of input.
StringLexer_get_counts_at_end(s) ==
    LET p == StringLexer_peek(s) IN
    IF p # <<>>
    THEN [st |-> count([s EXCEPT !.index = s.index + 1], p[1]), ret |-> p]
    ELSE [st |-> [s EXCEPT !.chr = s.chr + 1], ret |-> <<>>]

StringLexer_get(s) ==
    LET p == StringLexer_peek(s) IN
    IF p # <<>>
    THEN [st |-> count([s EXCEPT !.index = s.index + 1], p[1]), ret |-> p]
    ELSE [st |-> s, ret |-> <<>>]

\* ----------------------------------------------------------------- IOLexer

\* self.input.read(&mut self.buf) with a one-byte buffer, and what read_char
\* makes of it: Ok(0) and Err(_) set eof, Ok(1) leaves the byte in buf.
\* The supply fails once: the read of byte errAt returns Err(_) the first time
\* it is issued (reads = pos: every read so far delivered a byte), and a read
\* issued after that would deliver the byte.
IOLexer_read_char(s) ==
    IF (errAt = s.pos + 1 /\ s.reads = s.pos) \/ s.pos >= Len(input)
    THEN [s EXCEPT !.eof = TRUE, !.reads = s.reads + 1]
    ELSE [s EXCEPT !.buf = input[s.pos + 1], !.pos = s.pos + 1,
                   !.reads = s.reads + 1]

IOLexer_new ==
    IOLexer_read_char([pos |-> 0, buf |-> 0, eof |-> FALSE,
                       line |-> 1, chr |-> 1, reads |-> 0])

IOLexer_peek(s) == IF s.eof THEN <<>> ELSE <<s.buf>>

\* Mutant of IOLexer::get: the character returned is the one just read ahead.
IOLexer_get_returns_read_ahead(s) ==
    LET p == IOLexer_peek(s) IN
    IF p = <<>>
    THEN [st |-> s, ret |-> <<>>]
    ELSE [st |-> count(IOLexer_read_char(s), p[1]),
          ret |-> IOLexer_peek(IOLexer_read_char(s))]

\* Mutant of IOLexer::get: at end of input the supply is read again.
IOLexer_get_retries(s) ==
    LET p == IOLexer_peek(s) IN
    IF p = <<>>
    THEN [st |-> IOLexer_read_char([s EXCEPT !.eof = FALSE]), ret |-> <<>>]
    ELSE [st |-> count(IOLexer_read_char(s), p[1]), ret |-> p]

\* Mutant of IOLexer::get: a consume reads the supply twice.
IOLexer_get_reads_twice(s) ==
    LET p == IOLexer_peek(s) IN
    IF p = <<>>
    THEN [st |-> s, ret |-> <<>>]
    ELSE [st |-> count(IOLexer_read_char(IOLexer_read_char(s)), p[1]), ret |-> p]

IOLexer_get(s) ==
    LET p == IOLexer_peek(s) IN
    IF p = <<>>
    THEN [st |-> s, ret |-> <<>>]
    ELSE [st |-> count(IOLexer_read_char(s), p[1]), ret |-> p]

\* ------------------------------------------- the trait's required methods

peek(k, s) == IF k = "string" THEN StringLexer_peek(s) ELSE IOLexer_peek(s)

get(k, s) == IF k = "string" THEN StringLexer_get(s) ELSE IOLexer_get(s)


\* ------------------------------------------------------ str::trim (lexer.rs)

RECURSIVE trim_start(_)
trim_start(str) ==
    IF str # <<>> /\ is_whitespace(Head(str)) THEN trim_start(Tail(str)) ELSE str

RECURSIVE trim_end(_)
trim_end(str) ==
    IF str # <<>> /\ is_whitespace(str[Len(str)])
    THEN trim_end(SubSeq(str, 1, Len(str) - 1))
    ELSE str

trim(str) == trim_end(trim_start(str))

\* ------------------------------------------------ the trait's default methods
\* Each scanner returns [st |-> the source afterwards, res |-> its result].

RECURSIVE consume_whitespace(_, _)
consume_whitespace(k, s) ==
    LET p == peek(k, s) IN
    IF p = <<>> \/ ~is_whitespace(p[1])
    THEN s
    ELSE consume_whitespace(k, get(k, s).st)

\* Mutant of lpar: the parenthesis is reported but not consumed.
lpar_not_consumed(k, s) == [st |-> s, res |-> Tok("LPAR", <<>>, s.line, s.chr)]

lpar(k, s) == [st |-> get(k, s).st, res |-> Tok("LPAR", <<>>, s.line, s.chr)]

\* Mutant of rpar: the whitespace after the parenthesis is consumed as well.
rpar_skips_whitespace(k, s) ==
    [st |-> consume_whitespace(k, get(k, s).st),
     res |-> Tok("RPAR", <<>>, s.line, s.chr)]

rpar(k, s) == [st |-> get(k, s).st, res |-> Tok("RPAR", <<>>, s.line, s.chr)]

\* The `while let Some(c) = self.get()` loop of comment.
RECURSIVE comment_loop(_, _, _, _, _)
\* Mutant of the loop of comment: the text is returned untrimmed.
comment_loop_untrimmed(k, s, text, line, chr) ==
    LET g == get(k, s) IN
    IF g.ret # <<>> /\ g.ret[1] # NL
    THEN comment_loop(k, g.st, Append(text, g.ret[1]), line, chr)
    ELSE [st |-> g.st, res |-> Tok("COMMENT", text, line, chr)]

comment_loop(k, s, text, line, chr) ==
    LET g == get(k, s) IN
    IF g.ret # <<>> /\ g.ret[1] # NL
    THEN comment_loop(k, g.st, Append(text, g.ret[1]), line, chr)
    ELSE [st |-> g.st, res |-> Tok("COMMENT", trim(text), line, chr)]

comment(k, s) == comment_loop(k, s, <<>>, s.line, s.chr)

\* The `while let Some(c) = self.get()` loop of string.
RECURSIVE string_loop(_, _, _, _, _)
\* Mutant of the loop of string: the escaping backslash is kept in the text.
string_loop_keeps_backslash(k, s, text, start_line, start_chr) ==
    LET g == get(k, s) IN
    IF g.ret = <<>>
    THEN [st |-> g.st, res |-> Err("UNTERMINATED", text, start_line, start_chr)]
    ELSE LET c == g.ret[1] IN
         IF c = BACKSLASH
         THEN LET n == get(k, g.st) IN
              IF n.ret # <<>>
              THEN string_loop(k, n.st, text \o <<c, n.ret[1]>>, start_line, start_chr)
              ELSE [st |-> n.st,
                    res |-> Err("UNTERMINATED", text, start_line, start_chr)]
         ELSE IF c = NL
         THEN [st |-> g.st, res |-> Err("UNTERMINATED", text, start_line, start_chr)]
         ELSE IF c = QUOTE
         THEN [st |-> g.st, res |-> Tok("STRING", text, start_line, start_chr)]
         ELSE string_loop(k, g.st, Append(text, c), start_line, start_chr)

\* Mutant of the loop of string: an unterminated literal reports the Position
\* at which scanning stopped.
string_loop_stop_position(k, s, text, start_line, start_chr) ==
    LET g == get(k, s) IN
    IF g.ret = <<>>
    THEN [st |-> g.st, res |-> Err("UNTERMINATED", text, g.st.line, g.st.chr)]
    ELSE LET c == g.ret[1] IN
         IF c = BACKSLASH
         THEN LET n == get(k, g.st) IN
              IF n.ret # <<>>
              THEN string_loop(k, n.st, Append(text, n.ret[1]), start_line, start_chr)
              ELSE [st |-> n.st,
                    res |-> Err("UNTERMINATED", text, n.st.line, n.st.chr)]
         ELSE IF c = NL
         THEN [st |-> g.st, res |-> Err("UNTERMINATED", text, g.st.line, g.st.chr)]
         ELSE IF c = QUOTE
         THEN [st |-> g.st, res |-> Tok("STRING", text, start_line, start_chr)]
         ELSE string_loop(k, g.st, Append(text, c), start_line, start_chr)

string_loop(k, s, text, start_line, start_chr) ==
    LET g == get(k, s) IN
    IF g.ret = <<>>
    THEN [st |-> g.st, res |-> Err("UNTERMINATED", text, start_line, start_chr)]
    ELSE LET c == g.ret[1] IN
         IF c = BACKSLASH
         THEN LET n == get(k, g.st) IN
              IF n.ret # <<>>
              THEN string_loop(k, n.st, Append(text, n.ret[1]), start_line, start_chr)
              ELSE [st |-> n.st,
                    res |-> Err("UNTERMINATED", text, start_line, start_chr)]
         ELSE IF c = NL
         THEN [st |-> g.st, res |-> Err("UNTERMINATED", text, start_line, start_chr)]
         ELSE IF c = QUOTE
         THEN [st |-> g.st, res |-> Tok("STRING", text, start_line, start_chr)]
         ELSE string_loop(k, g.st, Append(text, c), start_line, start_chr)

\* Mutant of string: the Position is captured after the opening quote is consumed.
string_late_position(k, s) ==
    string_loop(k, get(k, s).st, <<>>, get(k, s).st.line, get(k, s).st.chr)

\* string consumes the first quotation mark, then loops.
string(k, s) == string_loop(k, get(k, s).st, <<>>, s.line, s.chr)

\* The `while let Some(c) = self.get()` loop of number.
RECURSIVE number_loop(_, _, _, _, _, _)
\* Mutant of the loop of number: on a character no number holds, the rest of
\* the word is consumed as well.
number_loop_skips_word(k, s, text, float, start_line, start_chr) ==
    LET g == get(k, s) IN
    IF g.ret = <<>>
    THEN [st |-> g.st, res |-> Token_number(trim(text), float, start_line, start_chr)]
    ELSE LET c == g.ret[1]
             pushed == Append(text, c)
         IN
         IF c \in DIGIT0..DIGIT9
         THEN number_loop(k, g.st, pushed, float, start_line, start_chr)
         ELSE IF c = DOT
         THEN IF float
              THEN [st |-> g.st, res |-> Err("FLOAT", pushed, start_line, start_chr)]
              ELSE number_loop(k, g.st, pushed, TRUE, start_line, start_chr)
         ELSE IF is_whitespace(c)
         THEN [st |-> g.st,
               res |-> Token_number(trim(pushed), float, start_line, start_chr)]
         ELSE [st |-> get(k, g.st).st,
               res |-> LexError_number(pushed, float, start_line, start_chr)]

number_loop(k, s, text, float, start_line, start_chr) ==
    LET g == get(k, s) IN
    IF g.ret = <<>>
    THEN [st |-> g.st, res |-> Token_number(trim(text), float, start_line, start_chr)]
    ELSE LET c == g.ret[1]
             pushed == Append(text, c)
         IN
         IF c \in DIGIT0..DIGIT9
         THEN number_loop(k, g.st, pushed, float, start_line, start_chr)
         ELSE IF c = DOT
         THEN IF float
              THEN [st |-> g.st, res |-> Err("FLOAT", pushed, start_line, start_chr)]
              ELSE number_loop(k, g.st, pushed, TRUE, start_line, start_chr)
         ELSE IF is_whitespace(c)
         THEN [st |-> g.st,
               res |-> Token_number(trim(pushed), float, start_line, start_chr)]
         ELSE [st |-> g.st,
               res |-> LexError_number(pushed, float, start_line, start_chr)]

number(k, s) ==
    IF peek(k, s) = <<MINUS>>
    THEN number_loop(k, get(k, s).st, <<MINUS>>, FALSE, s.line, s.chr)
    ELSE number_loop(k, s, <<>>, FALSE, s.line, s.chr)

\* The `while let Some(c) = self.get()` loop of ident.
RECURSIVE ident_loop(_, _, _, _, _)
\* Mutant of the loop of ident: the disallowed character is appended to the
\* text the error carries.
ident_loop_appends_invalid(k, s, text, start_line, start_chr) ==
    LET g == get(k, s) IN
    IF g.ret = <<>>
    THEN [st |-> g.st, res |-> Tok("IDENT", text, start_line, start_chr)]
    ELSE LET c == g.ret[1] IN
         IF c \in invalid
         THEN [st |-> g.st,
               res |-> Err("IDENT", Append(text, c), start_line, start_chr)]
         ELSE IF is_whitespace(c)
         THEN [st |-> g.st, res |-> Tok("IDENT", text, start_line, start_chr)]
         ELSE ident_loop(k, g.st, Append(text, c), start_line, start_chr)

\* Mutant of the loop of ident: all the whitespace after the identifier is
\* consumed.
ident_loop_skips_whitespace(k, s, text, start_line, start_chr) ==
    LET g == get(k, s) IN
    IF g.ret = <<>>
    THEN [st |-> g.st, res |-> Tok("IDENT", text, start_line, start_chr)]
    ELSE LET c == g.ret[1] IN
         IF c \in invalid
         THEN [st |-> g.st, res |-> Err("IDENT", text, start_line, start_chr)]
         ELSE IF is_whitespace(c)
         THEN [st |-> consume_whitespace(k, g.st),
               res |-> Tok("IDENT", text, start_line, start_chr)]
         ELSE ident_loop(k, g.st, Append(text, c), start_line, start_chr)

\* Mutant of the loop of ident: a '.' ends the identifier as whitespace does.
ident_loop_dot_ends(k, s, text, start_line, start_chr) ==
    LET g == get(k, s) IN
    IF g.ret = <<>>
    THEN [st |-> g.st, res |-> Tok("IDENT", text, start_line, start_chr)]
    ELSE LET c == g.ret[1] IN
         IF c \in invalid
         THEN [st |-> g.st, res |-> Err("IDENT", text, start_line, start_chr)]
         ELSE IF is_whitespace(c) \/ c = DOT
         THEN [st |-> g.st, res |-> Tok("IDENT", text, start_line, start_chr)]
         ELSE ident_loop(k, g.st, Append(text, c), start_line, start_chr)

\* Mutant of the loop of ident: the whitespace character that ends the
\* identifier is kept in its text.
ident_loop_keeps_terminator(k, s, text, start_line, start_chr) ==
    LET g == get(k, s) IN
    IF g.ret = <<>>
    THEN [st |-> g.st, res |-> Tok("IDENT", text, start_line, start_chr)]
    ELSE LET c == g.ret[1] IN
         IF c \in invalid
         THEN [st |-> g.st, res |-> Err("IDENT", text, start_line, start_chr)]
         ELSE IF is_whitespace(c)
         THEN [st |-> g.st,
               res |-> Tok("IDENT", Append(text, c), start_line, start_chr)]
         ELSE ident_loop(k, g.st, Append(text, c), start_line, start_chr)

ident_loop(k, s, text, start_line, start_chr) ==
    LET g == get(k, s) IN
    IF g.ret = <<>>
    THEN [st |-> g.st, res |-> Tok("IDENT", text, start_line, start_chr)]
    ELSE LET c == g.ret[1] IN
         IF c \in invalid
         THEN [st |-> g.st, res |-> Err("IDENT", text, start_line, start_chr)]
         ELSE IF is_whitespace(c)
         THEN [st |-> g.st, res |-> Tok("IDENT", text, start_line, start_chr)]
         ELSE ident_loop(k, g.st, Append(text, c), start_line, start_chr)

ident(k, s) == ident_loop(k, s, <<>>, s.line, s.chr)

\* Mutant of read_token: the character no token starts with is consumed.
read_token_consuming(k, s) ==
    LET p == peek(k, s) IN
    IF p = <<>>
    THEN [st |-> s, res |-> Err("END", <<>>, s.line, s.chr)]
    ELSE LET c == p[1] IN
         IF c = LPAREN THEN lpar(k, s)
         ELSE IF c = RPAREN THEN rpar(k, s)
         ELSE IF c = SEMICOLON THEN comment(k, s)
         ELSE IF c = QUOTE THEN string(k, s)
         ELSE IF c \in DIGIT0..DIGIT9 \/ c = MINUS \/ c = DOT THEN number(k, s)
         ELSE IF c \in UPPER_A..LOWER_Z THEN ident(k, s)
         ELSE [st |-> get(k, s).st, res |-> Err("INVALID", <<c>>, s.line, s.chr)]

read_token(k, s) ==
    LET p == peek(k, s) IN
    IF p = <<>>
    THEN [st |-> s, res |-> Err("END", <<>>, s.line, s.chr)]
    ELSE LET c == p[1] IN
         IF c = LPAREN THEN lpar(k, s)
         ELSE IF c = RPAREN THEN rpar(k, s)
         ELSE IF c = SEMICOLON THEN comment(k, s)
         ELSE IF c = QUOTE THEN string(k, s)
         ELSE IF c \in DIGIT0..DIGIT9 \/ c = MINUS \/ c = DOT THEN number(k, s)
         ELSE IF c \in UPPER_A..LOWER_Z THEN ident(k, s)
         ELSE [st |-> s, res |-> Err("INVALID", <<c>>, s.line, s.chr)]

\* Mutant of next: END reports the Position held before the whitespace was skipped.
next_end_before_skip(k, s) ==
    LET w == consume_whitespace(k, s) IN
    IF peek(k, w) = <<>>
    THEN [st |-> w, res |-> Err("END", <<>>, s.line, s.chr)]
    ELSE read_token(k, w)

\* Mutant of next: reporting END advances the column.
next_end_advances(k, s) ==
    LET w == consume_whitespace(k, s) IN
    IF peek(k, w) = <<>>
    THEN [st |-> [w EXCEPT !.chr = w.chr + 1],
          res |-> Err("END", <<>>, w.line, w.chr)]
    ELSE read_token(k, w)

next(k, s) ==
    LET w == consume_whitespace(k, s) IN
    IF peek(k, w) = <<>>
    THEN [st |-> w, res |-> Err("END", <<>>, w.line, w.chr)]
    ELSE read_token(k, w)

\* ------------------------------------------------------------------ inputs

Seqs(A, n) == UNION {[1..m -> A] : m \in 0..n}

\* Character sources: a newline, another whitespace character, a letter.
SrcAlphabet == {NL, SPACE, 97}

SrcInputs == Seqs(SrcAlphabet, MaxSrcLen)

\* The tokenizer at large: one character of every class read_token tells apart
\* (newline, space, '"', '(', ')', ';', a digit, '.', a letter, and '#').
TokAlphabet == {NL, SPACE, QUOTE, LPAREN, RPAREN, SEMICOLON, 49, DOT, 97, 35}

TokInputs == Seqs(TokAlphabet, MaxLen)

\* String literals: '"', '\', newline, a letter, a space.
StrAlphabet == {QUOTE, BACKSLASH, NL, 97, SPACE}

StrInputs == Seqs(StrAlphabet, MaxStrLen)

\* Numbers: a digit, '-', '.', a space, a newline, a letter.
NumAlphabet == {49, MINUS, DOT, SPACE, NL, 97}

NumInputs == Seqs(NumAlphabet, MaxNumLen)

\* Identifiers: a prefix that is empty or starts with a letter of 'A'...'z',
\* then any one character of AnyChar, then a suffix.
IdentStart == {97, 95}
IdentChar == {97, 49, 33, DOT}
AnyChar == {91, 93, 123, 125, 40, 41, 124, 92, 47, 39, 34, 35, 44}
           \cup IdentChar \cup {NL, SPACE, 64, 126}
SufAlphabet == {97, RPAREN}

IdentPrefixes ==
    {<<>>} \cup
    {<<c>> \o r : c \in IdentStart, r \in Seqs(IdentChar, MaxPreLen - 1)}

IdentInputs ==
    {p \o <<d>> \o s : p \in IdentPrefixes, d \in AnyChar,
                       s \in Seqs(SufAlphabet, MaxSufLen)}

\* ----------------------------------------------------------------- actions

\* Construction of both lexers over one of `inputs`, with a supply that fails
\* at one of its reads or at none.
InitWith(inputs) ==
    /\ input \in inputs
    /\ errAt \in 0..Len(input)
    /\ sl = StringLexer_new
    /\ io = IOLexer_new
    /\ op = "new"
    /\ slOpt = <<>>
    /\ ioOpt = <<>>
    /\ slRes = NoResult
    /\ ioRes = NoResult

Peek ==
    /\ op' = "peek"
    /\ slOpt' = StringLexer_peek(sl)
    /\ ioOpt' = IOLexer_peek(io)
    /\ UNCHANGED <<input, errAt, sl, io, slRes, ioRes>>

Get ==
    /\ op' = "get"
    /\ sl' = StringLexer_get(sl).st
    /\ slOpt' = StringLexer_get(sl).ret
    /\ io' = IOLexer_get(io).st
    /\ ioOpt' = IOLexer_get(io).ret
    /\ UNCHANGED <<input, errAt, slRes, ioRes>>

NextToken ==
    /\ op' = "next"
    /\ sl' = next("string", sl).st
    /\ slRes' = next("string", sl).res
    /\ io' = next("io", io).st
    /\ ioRes' = next("io", io).res
    /\ UNCHANGED <<input, errAt, slOpt, ioOpt>>

Next == Peek \/ Get \/ NextToken

\* The character sources, with a supply that may fail at any read.
InitSrc == InitWith(SrcInputs)
SpecSrc == InitSrc /\ [][Next]_vars

\* The tokenizer over inputs that mix every class of character.
Init == InitWith(TokInputs)
Spec == Init /\ [][Next]_vars

\* The tokenizer over string literals.
InitStr == InitWith(StrInputs)
SpecStr == InitStr /\ [][Next]_vars

\* The tokenizer over numbers.
InitNum == InitWith(NumInputs)
SpecNum == InitNum /\ [][Next]_vars

\* The tokenizer over identifiers.
InitIdent == InitWith(IdentInputs)
SpecIdent == InitIdent /\ [][Next]_vars

\* =================================================================== claims
\* What the claims speak of, stated over the input and the number of
\* characters a source has consumed, independently of the scanners above.

\* The bytes the IOLexer's supply delivers: the input up to the failing read.
EffInput == IF errAt = 0 THEN input ELSE SubSeq(input, 1, errAt - 1)

\* Characters a source has consumed (not counting the IOLexer's read-ahead).
SLConsumed(s) == s.index
IOConsumed(s) == IF s.eof THEN s.pos ELSE s.pos - 1

\* The Position after consuming `str` from the start of the input.
Newlines(str) == Cardinality({i \in 1..Len(str) : str[i] = NL})
LastNewline(str) ==
    IF \E i \in 1..Len(str) : str[i] = NL
    THEN CHOOSE i \in 1..Len(str) :
             str[i] = NL /\ \A j \in (i + 1)..Len(str) : str[j] # NL
    ELSE 0
LineAfter(str) == 1 + Newlines(str)
ColumnAfter(str) == 1 + (Len(str) - LastNewline(str))
LineAt(inp, n) == LineAfter(SubSeq(inp, 1, n))
ColumnAt(inp, n) == ColumnAfter(SubSeq(inp, 1, n))

\* Characters consumed once the whitespace after the first n has been skipped;
\* the next token starts at TokenStart.
AfterWhitespace(inp, n) ==
    CHOOSE m \in n..Len(inp) :
        /\ \A i \in (n + 1)..m : is_whitespace(inp[i])
        /\ m = Len(inp) \/ ~is_whitespace(inp[m + 1])
TokenStart(inp, n) == AfterWhitespace(inp, n) + 1

\* The characters ident refuses, as the specification lists them:
\* [ ] { } ( ) | \ / ' " # ,
Disallowed == {91, 93, 123, 125, 40, 41, 124, 92, 47, 39, 34, 35, 44}

IsDigit(c) == c \in 48..57

\* ----------------------------------------------------------------------- C1
\* C1: in both character sources, whatever calls were made, line is 1 + the
\* number of newlines consumed and chr is 1 + the number of characters
\* consumed since the last consumed newline (or since the start).
C1_PositionCountsConsumed ==
    /\ sl.line = LineAt(input, SLConsumed(sl))
    /\ sl.chr = ColumnAt(input, SLConsumed(sl))
    /\ io.line = LineAt(EffInput, IOConsumed(io))
    /\ io.chr = ColumnAt(EffInput, IOConsumed(io))

\* Both sources have consumed a newline and two characters after it.
C1_Witness ==
    /\ op = "get"
    /\ sl.line = 2 /\ sl.chr = 3 /\ sl.index >= 4
    /\ io.line = 2 /\ io.chr = 3

\* ----------------------------------------------------------------------- C2
\* C2: a step of next that returns a Token or a malformed-token error (any
\* result but END) attaches the Position of the token's first character: the
\* Position the source has once the leading whitespace is skipped, on
\* whatever line the token starts.
StartsAtToken(inp, before, res) ==
    res.tag # "END" =>
        /\ res.line = LineAt(inp, AfterWhitespace(inp, before))
        /\ res.chr = ColumnAt(inp, AfterWhitespace(inp, before))

C2_PositionOfFirstCharacter ==
    [][op' = "next" =>
        /\ StartsAtToken(input, SLConsumed(sl), slRes')
        /\ StartsAtToken(EffInput, IOConsumed(io), ioRes')]_vars

\* A token that starts on the second line, after a skipped newline and space.
C2_Witness ==
    /\ op = "next"
    /\ slRes = Tok("LPAR", <<>>, 2, 2)
    /\ ioRes = Tok("LPAR", <<>>, 2, 2)

\* ----------------------------------------------------------------------- C3
\* C3: a step of next that returns INVALID(c) leaves c as the lookahead, has
\* consumed the leading whitespace and nothing else, and reports the source's
\* Position; the next call of next returns the same error and changes nothing.
InvalidLeft(inp, before, after, s, res, la) ==
    res.tag = "INVALID" =>
        /\ after = AfterWhitespace(inp, before)
        /\ la = res.text
        /\ la = <<inp[after + 1]>>
        /\ res.line = s.line /\ res.chr = s.chr
        /\ s.line = LineAt(inp, after) /\ s.chr = ColumnAt(inp, after)

C3_InvalidCharacterNotConsumed ==
    [][op' = "next" =>
        /\ InvalidLeft(input, SLConsumed(sl), SLConsumed(sl'), sl', slRes',
                       StringLexer_peek(sl'))
        /\ InvalidLeft(EffInput, IOConsumed(io), IOConsumed(io'), io', ioRes',
                       IOLexer_peek(io'))
        /\ (op = "next" /\ slRes.tag = "INVALID") => (slRes' = slRes /\ sl' = sl)
        /\ (op = "next" /\ ioRes.tag = "INVALID") => (ioRes' = ioRes /\ io' = io)
    ]_vars

\* INVALID('#') reported after two skipped characters.
C3_Witness ==
    /\ op = "next"
    /\ slRes = Err("INVALID", <<35>>, 1, 3)
    /\ ioRes = Err("INVALID", <<35>>, 1, 3)
    /\ sl.index = 2

\* ----------------------------------------------------------------------- C4
AllWhitespace(inp) == \A i \in 1..Len(inp) : is_whitespace(inp[i])

\* C4 as claimed: on an input of whitespace only, next returns END at a column
\* that is the number of characters consumed plus 1.
C4_ColumnIsConsumedPlusOne ==
    (op = "next" /\ AllWhitespace(input)) =>
        /\ slRes.tag = "END"
        /\ SLConsumed(sl) = Len(input)
        /\ slRes.chr = SLConsumed(sl) + 1

\* C4 (amended): on an input of whitespace only, next consumes all of it and
\* returns END at line 1 + the number of newlines consumed and at column 1 +
\* the number of characters consumed after the last newline (all of them when
\* there is none; the empty input gives line 1, column 1).
C4_EndAfterWhitespace ==
    (op = "next" /\ AllWhitespace(input)) =>
        /\ SLConsumed(sl) = Len(input)
        /\ slRes = Err("END", <<>>, LineAfter(input), ColumnAfter(input))
        /\ IOConsumed(io) = Len(EffInput)
        /\ ioRes = Err("END", <<>>, LineAfter(EffInput), ColumnAfter(EffInput))
        /\ Newlines(input) = 0 => slRes.chr = Len(input) + 1

\* END after a newline and two spaces: column 3, four characters consumed.
C4_Witness ==
    /\ op = "next"
    /\ AllWhitespace(input)
    /\ Len(input) = 4
    /\ slRes = Err("END", <<>>, 2, 3)
    /\ ioRes = Err("END", <<>>, 2, 3)

\* ------------------------------------------------------------------ C5, C6
\* Inside the literal whose opening quote is inp[q]: inp[i] is escaped when it
\* follows a backslash that is not itself escaped.
RECURSIVE IsEscaped(_, _, _)
IsEscaped(inp, q, i) ==
    /\ i > q + 1
    /\ inp[i - 1] = BACKSLASH
    /\ ~IsEscaped(inp, q, i - 1)

Unescaped(inp, q, i, c) == inp[i] = c /\ ~IsEscaped(inp, q, i)

\* inp[j] is the closing quote: the first unescaped quote, with no unescaped
\* newline before it.
ClosesAt(inp, q, j) ==
    /\ j \in (q + 1)..Len(inp)
    /\ Unescaped(inp, q, j, QUOTE)
    /\ \A i \in (q + 1)..(j - 1) :
           ~Unescaped(inp, q, i, QUOTE) /\ ~Unescaped(inp, q, i, NL)

\* Where an unterminated literal stops: at its first unescaped newline, or
\* past the end of the input.
StopsAt(inp, q) ==
    IF \E i \in (q + 1)..Len(inp) : Unescaped(inp, q, i, NL)
    THEN CHOOSE i \in (q + 1)..Len(inp) :
             /\ Unescaped(inp, q, i, NL)
             /\ \A h \in (q + 1)..(i - 1) : ~Unescaped(inp, q, h, NL)
    ELSE Len(inp) + 1

\* The characters inp[i..j-1] of the literal with every escaping backslash
\* removed and everything else, the escaped characters included, kept.
RECURSIVE UnescapedText(_, _, _, _)
UnescapedText(inp, q, i, j) ==
    IF i >= j THEN <<>>
    ELSE IF Unescaped(inp, q, i, BACKSLASH)
    THEN UnescapedText(inp, q, i + 1, j)
    ELSE <<inp[i]>> \o UnescapedText(inp, q, i + 1, j)

StringClosed(inp, before, after, res) ==
    LET q == TokenStart(inp, before) IN
    \A j \in 1..Len(inp) :
        (q <= Len(inp) /\ inp[q] = QUOTE /\ ClosesAt(inp, q, j)) =>
            /\ res = Tok("STRING", UnescapedText(inp, q, q + 1, j),
                         LineAt(inp, q - 1), ColumnAt(inp, q - 1))
            /\ after = j

\* C5: when the lookahead is '"' and an unescaped '"' closes the literal before
\* any unescaped newline and before the end of the input, next returns STRING
\* with the characters between the quotes, each escaping backslash removed and
\* the character after it kept, and stops right after the closing quote.
C5_StringLiteralUnescaped ==
    [][op' = "next" =>
        /\ StringClosed(input, SLConsumed(sl), SLConsumed(sl'), slRes')
        /\ StringClosed(EffInput, IOConsumed(io), IOConsumed(io'), ioRes')]_vars

\* The literal "\"" whose text is one escaped quote.
C5_Witness ==
    /\ op = "next"
    /\ input = <<QUOTE, BACKSLASH, QUOTE, QUOTE>>
    /\ slRes = Tok("STRING", <<QUOTE>>, 1, 1)
    /\ ioRes = Tok("STRING", <<QUOTE>>, 1, 1)
    /\ sl.index = 4

StringOpen(inp, before, res) ==
    LET q == TokenStart(inp, before) IN
    (/\ q <= Len(inp)
     /\ inp[q] = QUOTE
     /\ ~\E j \in 1..Len(inp) : ClosesAt(inp, q, j)) =>
        res = Err("UNTERMINATED", UnescapedText(inp, q, q + 1, StopsAt(inp, q)),
                  LineAt(inp, q - 1), ColumnAt(inp, q - 1))

\* C6: when the literal meets the end of the input, an unescaped newline or a
\* backslash that ends the input before an unescaped closing quote, next
\* returns UNTERMINATED with the unescaped text gathered so far (without the
\* newline or the dangling backslash) and the Position of the opening quote.
C6_UnterminatedString ==
    [][op' = "next" =>
        /\ StringOpen(input, SLConsumed(sl), slRes')
        /\ StringOpen(EffInput, IOConsumed(io), ioRes')]_vars

\* A literal on the second line cut by a raw newline after one character.
C6_Witness ==
    /\ op = "next"
    /\ input = <<NL, QUOTE, 97, NL>>
    /\ slRes = Err("UNTERMINATED", <<97>>, 2, 1)
    /\ ioRes = Err("UNTERMINATED", <<97>>, 2, 1)

\* ------------------------------------------------------------------ C7, C8
\* Where number's loop starts when the token starts at inp[q]: after the '-'
\* that number consumes before the loop, if there is one.
DigitsFrom(inp, q) == IF inp[q] = MINUS THEN q + 1 ELSE q

Dots(inp, i, j) == Cardinality({h \in i..j : inp[h] = DOT})

NumberToken(inp, before, res) ==
    (res.ok /\ res.tag \in {"INTEGER", "FLOAT"}) =>
        LET q == TokenStart(inp, before)
            e == q + Len(res.text) - 1
        IN
        /\ Len(res.text) >= 1
        /\ e <= Len(inp)
        /\ res.text = SubSeq(inp, q, e)
        /\ \A i \in DigitsFrom(inp, q)..e : IsDigit(inp[i]) \/ inp[i] = DOT
        /\ e = Len(inp) \/ is_whitespace(inp[e + 1])
        /\ res.tag = "INTEGER" <=> Dots(inp, q, e) = 0
        /\ res.tag = "FLOAT" <=> Dots(inp, q, e) = 1

\* C7: a number token is INTEGER when its lexeme holds no '.' and FLOAT when it
\* holds exactly one; its text is the lexeme as it stands in the input (an
\* optional '-', then digits and at most one '.'), up to and without the
\* whitespace or end of input that ends it.
C7_NumberTokenVerbatim ==
    [][op' = "next" =>
        /\ NumberToken(input, SLConsumed(sl), slRes')
        /\ NumberToken(EffInput, IOConsumed(io), ioRes')]_vars

\* FLOAT "-1." ended by a whitespace character.
C7_Witness ==
    /\ op = "next"
    /\ slRes = Tok("FLOAT", <<MINUS, 49, DOT>>, 1, 1)
    /\ ioRes = Tok("FLOAT", <<MINUS, 49, DOT>>, 1, 1)
    /\ sl.index = 4

\* inp[i] is the first character of the loop that is neither a digit nor the
\* first '.': number cannot go past it.
FirstNonNumeric(inp, q, i) ==
    /\ i \in DigitsFrom(inp, q)..Len(inp)
    /\ ~IsDigit(inp[i])
    /\ inp[i] = DOT => Dots(inp, DigitsFrom(inp, q), i - 1) > 0
    /\ \A h \in DigitsFrom(inp, q)..(i - 1) :
           IsDigit(inp[h]) \/ (inp[h] = DOT /\ Dots(inp, DigitsFrom(inp, q), h - 1) = 0)

NumberError(inp, before, res) ==
    LET q == TokenStart(inp, before) IN
    \A i \in 1..Len(inp) :
        (/\ q <= Len(inp)
         /\ IsDigit(inp[q]) \/ inp[q] = MINUS \/ inp[q] = DOT
         /\ FirstNonNumeric(inp, q, i)
         /\ ~is_whitespace(inp[i])) =>
            res = Err(IF Dots(inp, DigitsFrom(inp, q), i - 1) > 0
                      THEN "FLOAT" ELSE "INTEGER",
                      SubSeq(inp, q, i), LineAt(inp, q - 1), ColumnAt(inp, q - 1))

StartsIdentifier(inp, q) ==
    /\ q <= Len(inp)
    /\ inp[q] \in 65..122
    /\ inp[q] \notin Disallowed

\* Where the identifier that starts at inp[q] ends: at the first disallowed or
\* whitespace character, or past the end of the input.
IdentEnd(inp, q) ==
    CHOOSE b \in q..(Len(inp) + 1) :
        /\ \A i \in q..(b - 1) : inp[i] \notin Disallowed /\ ~is_whitespace(inp[i])
        /\ b = Len(inp) + 1 \/ inp[b] \in Disallowed \/ is_whitespace(inp[b])

IdentRejected(inp, before, res) ==
    LET q == TokenStart(inp, before)
        b == IdentEnd(inp, q)
    IN
    (StartsIdentifier(inp, q) /\ b <= Len(inp) /\ inp[b] \in Disallowed) =>
        res = Err("IDENT", SubSeq(inp, q, b - 1),
                  LineAt(inp, q - 1), ColumnAt(inp, q - 1))

\* C9: an identifier prefix p followed by a character d of the disallowed set
\* (a ')' included) fails with IDENT carrying exactly p, without d, at the
\* Position of the identifier's start, whatever follows d.
C9_DisallowedCharacterRejected ==
    [][op' = "next" =>
        /\ IdentRejected(input, SLConsumed(sl), slRes')
        /\ IdentRejected(EffInput, IOConsumed(io), ioRes')]_vars

\* "a1" followed by ')' and one more character: IDENT error carrying "a1".
C9_Witness ==
    /\ op = "next"
    /\ Len(input) = 4
    /\ input[3] = RPAREN
    /\ slRes = Err("IDENT", <<97, 49>>, 1, 1)
    /\ ioRes = Err("IDENT", <<97, 49>>, 1, 1)
    /\ sl.index = 3

IdentAccepted(inp, before, res) ==
    LET q == TokenStart(inp, before)
        b == IdentEnd(inp, q)
    IN
    (StartsIdentifier(inp, q) /\ (b = Len(inp) + 1 \/ is_whitespace(inp[b]))) =>
        res = Tok("IDENT", SubSeq(inp, q, b - 1),
                  LineAt(inp, q - 1), ColumnAt(inp, q - 1))

\* C10: ident appends every character that is neither whitespace nor
\* disallowed (digits and punctuation included) and ends at the first
\* whitespace character or at the end of the input, returning IDENT with
\* exactly those characters in order.
C10_IdentifierAccepted ==
    [][op' = "next" =>
        /\ IdentAccepted(input, SLConsumed(sl), slRes')
        /\ IdentAccepted(EffInput, IOConsumed(io), ioRes')]_vars

\* The identifier "a!." ended by the end of the input.
C10_Witness ==
    /\ op = "next"
    /\ slRes = Tok("IDENT", <<97, 33, DOT>>, 1, 1)
    /\ ioRes = Tok("IDENT", <<97, 33, DOT>>, 1, 1)
    /\ sl.index = 3

\* ---------------------------------------------------------------------- C11
\* The first newline at or after inp[q], or one past the end of the input.
LineEnd(inp, q) ==
    CHOOSE e \in q..(Len(inp) + 1) :
        /\ \A i \in q..(e - 1) : inp[i] # NL
        /\ e = Len(inp) + 1 \/ inp[e] = NL

\* inp[q..m]: inp[q..e-1] without the whitespace at its end (inp[q] is ';').
LastNonWhitespace(inp, q, e) ==
    CHOOSE m \in q..(e - 1) :
        /\ ~is_whitespace(inp[m])
        /\ \A i \in (m + 1)..(e - 1) : is_whitespace(inp[i])

CommentScanned(inp, before, after, s, res) ==
    LET q == TokenStart(inp, before)
        e == LineEnd(inp, q)
    IN
    (q <= Len(inp) /\ inp[q] = SEMICOLON) =>
        /\ res = Tok("COMMENT", SubSeq(inp, q, LastNonWhitespace(inp, q, e)),
                     LineAt(inp, q - 1), ColumnAt(inp, q - 1))
        /\ res.text[1] = SEMICOLON
        /\ \A i \in 1..Len(res.text) : res.text[i] # NL
        /\ after = IF e <= Len(inp) THEN e ELSE Len(inp)
        /\ e <= Len(inp) => (s.line = res.line + 1 /\ s.chr = 1)

\* C11: at a ';' next never fails: it consumes up to and including the first
\* newline (or to the end of the input) and returns COMMENT with the characters
\* before the newline, the ';' included, trimmed of whitespace; the text holds
\* no newline, and after a newline the source is at column 1 of the next line.
C11_CommentToEndOfLine ==
    [][op' = "next" =>
        /\ CommentScanned(input, SLConsumed(sl), SLConsumed(sl'), sl', slRes')
        /\ CommentScanned(EffInput, IOConsumed(io), IOConsumed(io'), io', ioRes')]_vars

\* "; \n": the comment ";" with its trailing space trimmed, newline consumed.
C11_Witness ==
    /\ op = "next"
    /\ input = <<SEMICOLON, SPACE, NL>>
    /\ slRes = Tok("COMMENT", <<SEMICOLON>>, 1, 1)
    /\ ioRes = Tok("COMMENT", <<SEMICOLON>>, 1, 1)
    /\ sl.index = 3 /\ sl.line = 2 /\ sl.chr = 1

\* ---------------------------------------------------------------------- C12
\* C12: a peek changes nothing in either source (Position, cursor, lookahead,
\* end-of-input flag); a peek that follows a peek returns the same value, and
\* the get that follows a peek returns the character that peek reported.
C12_PeekIdempotent ==
    [][/\ op' = "peek" => (sl' = sl /\ io' = io)
       /\ (op = "peek" /\ op' \in {"peek", "get"}) =>
              (slOpt' = slOpt /\ ioOpt' = ioOpt)]_vars

\* Both sources return the second character 'a' to a get; the step before may
\* have been the peek that reported it.
C12_Witness ==
    /\ op = "get"
    /\ slOpt = <<97>> /\ ioOpt = <<97>>
    /\ sl.index = 2 /\ sl.chr = 3
    /\ io.chr = 3

\* ---------------------------------------------------------------------- C13
\* A source is exhausted when it has consumed every character it can get.
SLExhausted == SLConsumed(sl) = Len(input)
IOExhausted == IOConsumed(io) = Len(EffInput)

\* C13: once a source is exhausted, every peek and get returns None and leaves
\* line and chr (and the rest of the source) as they were.
C13_ExhaustedSourceStays ==
    [][op' \in {"peek", "get"} =>
        /\ SLExhausted => (slOpt' = <<>> /\ sl' = sl)
        /\ IOExhausted => (ioOpt' = <<>> /\ io' = io)]_vars

\* Both sources answer None to a get at the end of "a\na", at Position (2,2).
C13_Witness ==
    /\ op = "get"
    /\ input = <<97, NL, 97>>
    /\ errAt = 0
    /\ slOpt = <<>> /\ ioOpt = <<>>
    /\ sl.line = 2 /\ sl.chr = 2
    /\ io.line = 2 /\ io.chr = 2

\* ---------------------------------------------------------------------- C14
\* C14: over the same bytes and a supply that raises no read error, the two
\* sources return the same value to every call and stand at the same Position
\* after it, with the same lookahead.
C14_SourcesEquivalent ==
    errAt = 0 =>
        /\ slOpt = ioOpt
        /\ slRes = ioRes
        /\ sl.line = io.line
        /\ sl.chr = io.chr
        /\ StringLexer_peek(sl) = IOLexer_peek(io)

\* Both sources have just returned a newline, the last character of the input.
C14_Witness ==
    /\ errAt = 0
    /\ op = "get"
    /\ slOpt = <<NL>> /\ ioOpt = <<NL>>
    /\ sl.line = 3 /\ io.line = 3
    /\ sl.index = Len(input)

\* ---------------------------------------------------------------------- C15
\* The supply has answered a read with Ok(0) or Err(_): more reads were issued
\* than bytes delivered.
ReadDeliveredNothing == io.reads > io.pos

\* C15: once a read of the IOLexer has failed or returned no byte, the source
\* is at end of input for good: peek and get return None, next returns END,
\* and nothing of the source changes any more, also when the supply has bytes
\* left after the failed read.
C15_ReadFailureIsEndOfInput ==
    [][ReadDeliveredNothing =>
        /\ io.eof
        /\ io' = io
        /\ op' \in {"peek", "get"} => ioOpt' = <<>>
        /\ op' = "next" => ioRes' = Err("END", <<>>, io.line, io.chr)]_vars

\* After the read of the second byte failed, the IOLexer reports END while
\* the StringLexer over the same three bytes returns a token.
C15_Witness ==
    /\ op = "next"
    /\ errAt = 2
    /\ Len(input) = 3
    /\ io.eof
    /\ ioRes = Err("END", <<>>, 1, 2)
    /\ slRes.ok

\* ---------------------------------------------------------------------- C16
TokenTags == {"LPAR", "RPAR", "COMMENT", "STRING", "INTEGER", "FLOAT", "IDENT"}
ErrorTags == {"INVALID", "UNTERMINATED", "IDENT", "INTEGER", "FLOAT", "END"}

\* A Token, or a malformed-token error other than INVALID.
Scanned(res) == res.ok \/ res.tag \notin {"END", "INVALID"}

Progress(inp, before, after, res) ==
    /\ IF res.ok THEN res.tag \in TokenTags ELSE res.tag \in ErrorTags
    /\ before <= after /\ after <= Len(inp)
    /\ Scanned(res) => after > before
    /\ (~res.ok /\ res.tag = "END") => after = Len(inp)

\* C16: every call of next returns a Token or a LexError; one that returns a
\* Token or a malformed-token error other than INVALID has consumed at least
\* one character, none consumes past the input, and END is returned only with
\* the whole input consumed: a caller that pulls until the first error gets at
\* most as many tokens as the input has characters.
C16_NextReturnsAndAdvances ==
    [][op' = "next" =>
        /\ Progress(input, SLConsumed(sl), SLConsumed(sl'), slRes')
        /\ Progress(EffInput, IOConsumed(io), IOConsumed(io'), ioRes')]_vars

\* Three tokens pulled from three characters: the last ')' of "(()".
C16_Witness ==
    /\ op = "next"
    /\ input = <<LPAREN, LPAREN, RPAREN>>
    /\ slRes = Tok("RPAR", <<>>, 1, 3)
    /\ ioRes = Tok("RPAR", <<>>, 1, 3)
    /\ sl.index = 3

\* ---------------------------------------------------------------------- C17
\* c can start a token: a delimiter, a comment, a string, a number, or a
\* character of 'A'...'z' that an identifier may hold.
CanStartToken(c) ==
    \/ c \in {LPAREN, RPAREN, SEMICOLON, QUOTE, MINUS, DOT}
    \/ IsDigit(c)
    \/ (c \in 65..122 /\ c \notin Disallowed)

InvalidAtStart(inp, before, after, res) ==
    LET q == TokenStart(inp, before) IN
    (q <= Len(inp) /\ ~CanStartToken(inp[q])) =>
        /\ res = Err("INVALID", <<inp[q]>>, LineAt(inp, q - 1), ColumnAt(inp, q - 1))
        /\ after = q - 1

\* C17 as claimed: when the first character after the whitespace cannot start
\* a token, next returns INVALID with that character and leaves it unconsumed;
\* so it does for each of [ ] { } | \ / ' # , at token start, and never returns
\* an IDENT error with an empty text.
C17_InvalidCharacterAtStart ==
    [][op' = "next" =>
        /\ InvalidAtStart(input, SLConsumed(sl), SLConsumed(sl'), slRes')
        /\ InvalidAtStart(EffInput, IOConsumed(io), IOConsumed(io'), ioRes')]_vars

\* ---------------------------------------------------------------------- C18
Delimiter(inp, before, after, s, res) ==
    LET q == TokenStart(inp, before) IN
    (q <= Len(inp) /\ inp[q] \in {LPAREN, RPAREN}) =>
        /\ res = Tok(IF inp[q] = LPAREN THEN "LPAR" ELSE "RPAR", <<>>,
                     LineAt(inp, q - 1), ColumnAt(inp, q - 1))
        /\ after = q
        /\ s.line = res.line
        /\ s.chr = res.chr + 1

\* C18: at a '(' or ')' next returns LPAR or RPAR with the Position of that
\* character, and has consumed that character and nothing after it: the column
\* is one further, the line is the same.
C18_DelimiterConsumesOne ==
    [][op' = "next" =>
        /\ Delimiter(input, SLConsumed(sl), SLConsumed(sl'), sl', slRes')
        /\ Delimiter(EffInput, IOConsumed(io), IOConsumed(io'), io', ioRes')]_vars

\* ")" after a space and before a newline: the newline is not consumed.
C18_Witness ==
    /\ op = "next"
    /\ input = <<SPACE, RPAREN, NL>>
    /\ slRes = Tok("RPAR", <<>>, 1, 2)
    /\ ioRes = Tok("RPAR", <<>>, 1, 2)
    /\ sl.index = 2 /\ sl.line = 1 /\ sl.chr = 3

\* ---------------------------------------------------------------------- C19
LexemeConsumed(inp, before, after, s, res) ==
    (res.ok /\ res.tag \in {"INTEGER", "FLOAT", "IDENT"}) =>
        LET q == TokenStart(inp, before)
            e == q + Len(res.text) - 1
        IN
        /\ res.text = SubSeq(inp, q, e)
        /\ IF e < Len(inp)
           THEN is_whitespace(inp[e + 1]) /\ after = e + 1
           ELSE after = Len(inp)
        /\ s.line = LineAt(inp, after)
        /\ s.chr = ColumnAt(inp, after)

\* C19: a number or identifier token that ends at a whitespace character has
\* consumed its lexeme and that one character (a newline advances the line);
\* one that ends with the input has consumed its lexeme; nothing further is
\* consumed, so the next call starts right after the terminator.
C19_OneTerminatorConsumed ==
    [][op' = "next" =>
        /\ LexemeConsumed(input, SLConsumed(sl), SLConsumed(sl'), sl', slRes')
        /\ LexemeConsumed(EffInput, IOConsumed(io), IOConsumed(io'), io', ioRes')]_vars

\* "a" ended by a newline that a space follows: the space is left.
C19_Witness ==
    /\ op = "next"
    /\ input = <<97, NL, SPACE>>
    /\ slRes = Tok("IDENT", <<97>>, 1, 1)
    /\ ioRes = Tok("IDENT", <<97>>, 1, 1)
    /\ sl.index = 2 /\ sl.line = 2 /\ sl.chr = 1

\* ---------------------------------------------------------------------- C20
\* The characters a failed number or identifier scan has consumed: the error's
\* text, which for INTEGER and FLOAT includes the offending character and for
\* IDENT stops before it.
FailedScanConsumed(inp, before, after, s, res) ==
    (~res.ok /\ res.tag \in {"INTEGER", "FLOAT", "IDENT"}) =>
        LET q == TokenStart(inp, before)
            bad == IF res.tag = "IDENT" THEN q + Len(res.text)
                   ELSE q + Len(res.text) - 1
        IN
        /\ bad <= Len(inp)
        /\ res.text = SubSeq(inp, q, IF res.tag = "IDENT" THEN bad - 1 ELSE bad)
        /\ after = bad
        /\ s.line = LineAt(inp, bad)
        /\ s.chr = ColumnAt(inp, bad)

\* C20: after an INTEGER, FLOAT or IDENT error the source has consumed the
\* characters from the token start up to and including the offending one and
\* nothing more, and holds nothing of the failed token: it stands where a
\* source that consumed just those characters stands, so the next call scans
\* from the character after the offending one.
C20_ErrorStopsAfterOffender ==
    [][op' = "next" =>
        /\ FailedScanConsumed(input, SLConsumed(sl), SLConsumed(sl'), sl', slRes')
        /\ FailedScanConsumed(EffInput, IOConsumed(io), IOConsumed(io'), io', ioRes')
        /\ (op = "next" /\ ~slRes.ok /\ slRes.tag \in {"INTEGER", "FLOAT", "IDENT"}) =>
               slRes' = next("string", [index |-> sl.index,
                                        line |-> LineAt(input, sl.index),
                                        chr |-> ColumnAt(input, sl.index)]).res
    ]_vars

\* "1a" fails at 'a' with INTEGER; the ')' after it is not consumed.
C20_Witness ==
    /\ op = "next"
    /\ input = <<49, 97, RPAREN>>
    /\ slRes = Err("INTEGER", <<49, 97>>, 1, 1)
    /\ ioRes = Err("INTEGER", <<49, 97>>, 1, 1)
    /\ sl.index = 2

\* ---------------------------------------------------------------------- C21
\* C21: the IOLexer holds one character of read-ahead.  Construction issues one
\* read and every successful consume one more, so the reads issued are always
\* one more than the characters consumed; while the source is not at end of
\* input the lookahead is the byte the last read delivered, in input order.
\* A peek issues no read, a get that returns a character issues exactly one and
\* returns the byte numbered by the reads issued before it (none is returned
\* twice, none skipped), and once end of input was detected no call issues a
\* read.
C21_OneCharacterReadAhead ==
    [][/\ io.reads = IOConsumed(io) + 1
       /\ ~io.eof => IOLexer_peek(io) = <<EffInput[io.reads]>>
       /\ op' = "peek" => io'.reads = io.reads
       /\ (op' = "get" /\ ioOpt' # <<>>) =>
              /\ io'.reads = io.reads + 1
              /\ ioOpt' = <<EffInput[io.reads]>>
       /\ (op' = "get" /\ ioOpt' = <<>>) => io'.reads = io.reads
       /\ op' = "next" =>
              io'.reads = io.reads + (IOConsumed(io') - IOConsumed(io))
       /\ io.eof => io'.reads = io.reads]_vars

\* Three characters consumed with four reads, the last of which found the end;
\* the get after them returned None and read nothing.
C21_Witness ==
    /\ op = "get"
    /\ errAt = 0
    /\ Len(input) = 3
    /\ ioOpt = <<>>
    /\ io.eof
    /\ io.reads = 4

\* ---------------------------------------------------------------------- C22
IsEnd(res) == ~res.ok /\ res.tag = "END"

\* C22: once next has returned END at a Position, every later call leaves the
\* source as it is, and every later next returns END at that same Position
\* (the result of the last next stays END at that Position from then on).
C22_EndIsAbsorbing ==
    [][/\ IsEnd(slRes) =>
              /\ sl' = sl
              /\ slRes' = slRes
              /\ op' = "next" => slRes' = Err("END", <<>>, sl.line, sl.chr)
       /\ IsEnd(ioRes) =>
              /\ io' = io
              /\ ioRes' = ioRes
              /\ op' = "next" => ioRes' = Err("END", <<>>, io.line, io.chr)]_vars

\* END at (2,2) after "a", a newline and a space; both sources are exhausted.
C22_Witness ==
    /\ op = "next"
    /\ input = <<97, NL, SPACE>>
    /\ errAt = 0
    /\ slRes = Err("END", <<>>, 2, 2)
    /\ ioRes = Err("END", <<>>, 2, 2)
    /\ sl.index = 3 /\ io.eof

\* ---------------------------------------------------------------------- C23
\* Lexicographic order of Positions (line, column).
Before(l1, c1, l2, c2) == l1 < l2 \/ (l1 = l2 /\ c1 < c2)
NotAfter(l1, c1, l2, c2) == l1 < l2 \/ (l1 = l2 /\ c1 <= c2)

\* One call on one source: its line and consumed count do not decrease and
\* its Position does not go back; a Token that next returns lies at or after
\* the Position the source had and strictly before the one it has afterwards;
\* and a Token returned right after another Token lies strictly after it.
PositionsAdvance(op2, cons, cons2, s, s2, res, res2) ==
    /\ s2.line >= s.line
    /\ cons2 >= cons
    /\ NotAfter(s.line, s.chr, s2.line, s2.chr)
    /\ (op2 = "next" /\ res2.ok) =>
           /\ NotAfter(s.line, s.chr, res2.line, res2.chr)
           /\ Before(res2.line, res2.chr, s2.line, s2.chr)
           /\ res.ok => Before(res.line, res.chr, res2.line, res2.chr)

\* C23: over the calls made on one tokenizer the Positions of the Tokens that
\* next returns strictly increase in (line, column) order: each Token lies
\* strictly before the Position the source is left at, that Position never
\* goes back, and the following Token lies at or after it.  The line counter
\* and the count of consumed characters never decrease.
C23_TokenPositionsIncrease ==
    [][/\ PositionsAdvance(op', SLConsumed(sl), SLConsumed(sl'), sl, sl', slRes, slRes')
       /\ PositionsAdvance(op', IOConsumed(io), IOConsumed(io'), io, io', ioRes, ioRes')
      ]_vars

\* The second token of " a\na": column 1 of line 2, after a token at column 2
\* of line 1.
C23_Witness ==
    /\ op = "next"
    /\ input = <<SPACE, 97, NL, 97>>
    /\ errAt = 0
    /\ slRes = Tok("IDENT", <<97>>, 2, 1)
    /\ ioRes = Tok("IDENT", <<97>>, 2, 1)
    /\ sl.index = 4

\* ---------------------------------------------------------------------- C24
HasDigit(text) == \E i \in 1..Len(text) : IsDigit(text[i])

NumericLiteral(res) == res.ok /\ res.tag \in {"INTEGER", "FLOAT"}

\* C24 as claimed: the text of every INTEGER or FLOAT token that next returns
\* holds at least one digit; "-", "." and "-." ended by whitespace or by the
\* end of input are never returned as a numeric literal.
C24_NumericLiteralHasDigit ==
    /\ NumericLiteral(slRes) => HasDigit(slRes.text)
    /\ NumericLiteral(ioRes) => HasDigit(ioRes.text)

\* ---------------------------------------------------------------------- C25
WellFormedIdentifier(inp, before, res) ==
    (res.ok /\ res.tag = "IDENT") =>
        LET q == TokenStart(inp, before) IN
        /\ Len(res.text) >= 1
        /\ \A i \in 1..Len(res.text) :
               ~is_whitespace(res.text[i]) /\ res.text[i] \notin Disallowed
        /\ q <= Len(inp)
        /\ res.text[1] = inp[q]
        /\ inp[q] \in 65..122

\* C25: the text of every IDENT token that next returns is not empty, holds no
\* whitespace character and no disallowed character, and starts with the
\* character that was the lookahead when the whitespace had been skipped, a
\* character of 'A'...'z'.
C25_IdentifierWellFormed ==
    [][op' = "next" =>
        /\ WellFormedIdentifier(input, SLConsumed(sl), slRes')
        /\ WellFormedIdentifier(EffInput, IOConsumed(io), ioRes')]_vars

\* The identifier "_1" ended by a space that an 'a' follows.
C25_Witness ==
    /\ op = "next"
    /\ input = <<95, 49, SPACE, 97>>
    /\ slRes = Tok("IDENT", <<95, 49>>, 1, 1)
    /\ ioRes = Tok("IDENT", <<95, 49>>, 1, 1)
    /\ sl.index = 3

====
